---------------------------- MODULE Spec2Model ----------------------------
(***************************************************************************)
(* Moderation decision pipeline of the YouTube Shorts content filter:      *)
(* guardrail matching (rules.py), zero-shot scoring with fallback and      *)
(* keyword boost, risk binning and primary selection (engine.py), the      *)
(* ordered decision table and result assembly (decision.py).               *)
(*                                                                         *)
(* Scores are fixed-point numbers in hundredths: 85 stands for 0.85.       *)
(* A Python dict is a sequence of [k, v] pairs in insertion order, since   *)
(* max() over dict items returns the first maximal item in that order.     *)
(* A context string is a sequence of phrases joined by single spaces.      *)
(***************************************************************************)
EXTENDS Integers, Sequences, FiniteSets, TLC

VARIABLES
    engine,     \* the module-level engine of engine.py: unset, or its classifier
    pc,         \* position of the item being handled
    context,    \* processed["context"] of the item
    guard,      \* what check_guardrails returned for the item
    nli,        \* what classify_with_nli did and returned for the item
    mod,        \* the dict returned by moderate
    result,     \* the ModerationResult built by create_result
    verdict,    \* what a direct call of compute_overall_decision returned
    batch,      \* the Batch Upload handler of app.py: its position, shorts and results
    instances,  \* the classifier of every ModerationEngine built so far, oldest first
    calls       \* which of the instances each get_engine call has returned

vars == <<engine, pc, context, guard, nli, mod, result, verdict, batch, instances, calls>>

---------------------------------------------------------------------------
(* Bounds of the model *)

\* longest context, in phrases
MaxLen == 2

\* most labels the classifier may leave out of an incomplete answer
MaxDrop == 1

\* most items of an uploaded batch
MaxBatch == 2

\* most get_engine calls of one process
MaxCalls == 2

---------------------------------------------------------------------------
(* config.py *)

\* RISK_DEFINITIONS.keys(), in insertion order
CategoryOrder ==
    << "HATE_SPEECH", "HARASSMENT", "VIOLENCE_INCITEMENT", "SEXUAL_EXPLICIT",
       "SELF_HARM", "SCAM_SPAM", "MISINFO_HIGH_HARM" >>

Categories == { CategoryOrder[i] : i \in 1..Len(CategoryOrder) }

\* RISK_DEFINITIONS.values(): the hypothesis sentence of each category,
\* named here by the category it belongs to
Hypothesis(cat) == <<"hypothesis", cat>>

hypotheses == [ i \in 1..Len(CategoryOrder) |-> Hypothesis(CategoryOrder[i]) ]

HIGH_RISK == 85

MEDIUM_RISK == 60

\* CRITICAL_CATEGORIES without VIOLENCE_INCITEMENT
CRITICAL_CATEGORIES_self_harm_only == << "SELF_HARM" >>

CRITICAL_CATEGORIES == << "SELF_HARM", "VIOLENCE_INCITEMENT" >>

\* scores and the arithmetic of the boost, in hundredths
One == 100

FALLBACK == 50

BOOST_STEP == 5

BOOST_CAP == 15

REMOVE_SCORE == 90

AMBIGUOUS_LOW == 50

AMBIGUOUS_HIGH == 70

---------------------------------------------------------------------------
(* Python dicts as insertion-ordered sequences of pairs *)

DictKeys(d) == { d[i].k : i \in 1..Len(d) }

DictHas(d, key) == \E i \in 1..Len(d) : d[i].k = key

DictGet(d, key) == d[CHOOSE i \in 1..Len(d) : d[i].k = key].v

\* d[key] = val : an existing key keeps its position, a new key is appended
DictSet(d, key, val) ==
    IF DictHas(d, key)
    THEN [ i \in 1..Len(d) |-> IF d[i].k = key THEN [k |-> key, v |-> val] ELSE d[i] ]
    ELSE Append(d, [k |-> key, v |-> val])

\* {cat: val for cat in RISK_DEFINITIONS.keys()}
ConstDict(val) == [ i \in 1..Len(CategoryOrder) |-> [k |-> CategoryOrder[i], v |-> val] ]

Min(a, b) == IF a < b THEN a ELSE b

---------------------------------------------------------------------------
(* Contexts: sequences of phrases *)

\* the phrases a context is made of
Vocabulary ==
    { "loli", "How To Kill Myself", "dyke", "bit.ly", "t.me crypto",
      "free money click here", "kill hurt bomb attack", "nude sexual xxx" }

\* str.lower() leaving the phrase as it is
LowerPhrase_unchanged(p) == p

\* str.lower() on a phrase
LowerPhrase(p) == IF p = "How To Kill Myself" THEN "how to kill myself" ELSE p

\* text.lower()
Lower(text) == [ i \in 1..Len(text) |-> LowerPhrase(text[i]) ]

Contexts == UNION { [1..n -> Vocabulary] : n \in 0..MaxLen }

---------------------------------------------------------------------------
(* rules.py *)

\* the phrases in which a pattern of HARD_FILTERS["CSAM_INDICATORS"] matches
CSAM_INDICATORS == { "loli" }

\* the phrases in which a pattern of HARD_FILTERS["SELF_HARM_EXPLICIT"] matches
SELF_HARM_EXPLICIT == { "how to kill myself" }

\* the phrases in which a pattern of HARD_FILTERS["SLURS"] matches
SLURS == { "dyke" }

\* EXTREME_SCAM_LINKS is (link).*?(scam word): the phrases holding a link,
\* those holding a scam word, and those holding a link before a scam word
SCAM_LINK_HEAD == { "bit.ly", "t.me crypto" }

SCAM_LINK_TAIL == { "free money click here", "t.me crypto" }

SCAM_LINK_WHOLE == { "t.me crypto" }

csam_search(t) == \E i \in 1..Len(t) : t[i] \in CSAM_INDICATORS

self_harm_search(t) == \E i \in 1..Len(t) : t[i] \in SELF_HARM_EXPLICIT

slur_search(t) == \E i \in 1..Len(t) : t[i] \in SLURS

\* match.group() of the leftmost slur
slur_group(t) == t[CHOOSE i \in 1..Len(t) :
                     /\ t[i] \in SLURS
                     /\ \A j \in 1..(i-1) : t[j] \notin SLURS]

scam_link_search(t) ==
    \/ \E i \in 1..Len(t) : t[i] \in SCAM_LINK_WHOLE
    \/ \E i \in 1..Len(t) : \E j \in (i+1)..Len(t) :
          t[i] \in SCAM_LINK_HEAD /\ t[j] \in SCAM_LINK_TAIL

NoGuard == [fired |-> FALSE, category |-> "", evidence |-> <<"">>]

\* check_guardrails with the slur group tried before the self-harm group
check_guardrails_slur_first(text) ==
    LET text_lower == Lower(text) IN
    IF csam_search(text_lower)
    THEN [fired |-> TRUE, category |-> "SELF_HARM",
          evidence |-> <<"CSAM indicators detected - IMMEDIATE ESCALATION">>]
    ELSE IF slur_search(text_lower)
    THEN [fired |-> TRUE, category |-> "HATE_SPEECH",
          evidence |-> <<"Slur detected: ", slur_group(text_lower)>>]
    ELSE IF self_harm_search(text_lower)
    THEN [fired |-> TRUE, category |-> "SELF_HARM",
          evidence |-> <<"Explicit self-harm content detected">>]
    ELSE IF scam_link_search(text_lower)
    THEN [fired |-> TRUE, category |-> "SCAM_SPAM",
          evidence |-> <<"Malicious link + scam keywords detected">>]
    ELSE NoGuard

check_guardrails(text) ==
    LET text_lower == Lower(text) IN
    IF csam_search(text_lower)
    THEN [fired |-> TRUE, category |-> "SELF_HARM",
          evidence |-> <<"CSAM indicators detected - IMMEDIATE ESCALATION">>]
    ELSE IF self_harm_search(text_lower)
    THEN [fired |-> TRUE, category |-> "SELF_HARM",
          evidence |-> <<"Explicit self-harm content detected">>]
    ELSE IF slur_search(text_lower)
    THEN [fired |-> TRUE, category |-> "HATE_SPEECH",
          evidence |-> <<"Slur detected: ", slur_group(text_lower)>>]
    ELSE IF scam_link_search(text_lower)
    THEN [fired |-> TRUE, category |-> "SCAM_SPAM",
          evidence |-> <<"Malicious link + scam keywords detected">>]
    ELSE NoGuard

---------------------------------------------------------------------------
(* The external classifier: what one call of self.classifier may do *)

\* the scores every label gets unless it is the distinguished one
BaseScores == { 10, 50, 70 }

\* the scores of the distinguished label
HotScores == { 60, 70, 90, 93 }

Reverse(s) == [ i \in 1..Len(s) |-> s[Len(s) + 1 - i] ]

\* the canonical order with category c moved to the front
MoveToFront(c) ==
    <<c>> \o SelectSeq(CategoryOrder, LAMBDA x : x # c)

\* orders in which the classifier may list its labels
LabelOrders == { MoveToFront(c) : c \in Categories } \cup { Reverse(CategoryOrder) }

\* how many labels an answer holds: all, nearly all, or none
LabelCounts == { 0 } \cup ((Len(CategoryOrder) - MaxDrop)..Len(CategoryOrder))

ScoreProfiles ==
    { [ c \in Categories |-> b ] : b \in BaseScores }
    \cup { [ c \in Categories |-> IF c = hot THEN h ELSE b ] :
              b \in BaseScores, hot \in Categories, h \in HotScores }

\* result["labels"] zipped with result["scores"]
Answer(order, n, profile) ==
    [ i \in 1..n |-> [label |-> Hypothesis(order[i]), score |-> profile[order[i]]] ]

\* the scores of a second distinguished label
RunnerUpScores == { 90 }

\* profiles with two distinguished labels over the lowest base score
TwoHotProfiles ==
    { [ c \in Categories |-> IF c = hot THEN h ELSE IF c = second THEN r ELSE 10 ] :
        hot \in Categories, second \in Categories, h \in HotScores, r \in RunnerUpScores }

ClassifierResponses ==
    { [kind |-> "raise", pairs |-> <<>>] }
    \cup { [kind |-> "ok", pairs |-> <<[label |-> <<"hypothesis", "OTHER">>, score |-> 90]>>] }
    \cup { [kind |-> "ok", pairs |-> Answer(o, n, p)] :
              o \in LabelOrders, n \in LabelCounts, p \in ScoreProfiles }
    \cup { [kind |-> "ok", pairs |-> Answer(o, Len(CategoryOrder), p)] :
              o \in { CategoryOrder, Reverse(CategoryOrder) }, p \in TwoHotProfiles }

---------------------------------------------------------------------------
(* engine.py *)

\* hypotheses.index(label); 0 stands for the ValueError of a missing label
IndexOf(label) ==
    IF \E i \in 1..Len(hypotheses) : hypotheses[i] = label
    THEN CHOOSE i \in 1..Len(hypotheses) : hypotheses[i] = label
    ELSE 0

\* the loop over zip(result["labels"], result["scores"])
RECURSIVE MapBack(_, _)
MapBack(pairs, scores) ==
    IF pairs = <<>> THEN scores
    ELSE MapBack(Tail(pairs),
                 DictSet(scores, CategoryOrder[IndexOf(Head(pairs).label)], Head(pairs).score))

\* classify_with_nli whose except branch returns an empty dict
classify_with_nli_no_fallback(classifier, response) ==
    IF classifier = "None"
    THEN [status |-> "unavailable", scores |-> ConstDict(FALLBACK)]
    ELSE IF response.kind = "raise"
    THEN [status |-> "raised", scores |-> <<>>]
    ELSE IF \E i \in 1..Len(response.pairs) : IndexOf(response.pairs[i].label) = 0
    THEN [status |-> "raised", scores |-> <<>>]
    ELSE [status |-> "returned", scores |-> MapBack(response.pairs, <<>>)]

\* classifier is "None" or "loaded"; response is what the call does
classify_with_nli(classifier, response) ==
    IF classifier = "None"
    THEN [status |-> "unavailable", scores |-> ConstDict(FALLBACK)]
    ELSE IF response.kind = "raise"
    THEN [status |-> "raised", scores |-> ConstDict(FALLBACK)]
    ELSE IF \E i \in 1..Len(response.pairs) : IndexOf(response.pairs[i].label) = 0
    THEN [status |-> "raised", scores |-> ConstDict(FALLBACK)]
    ELSE [status |-> "returned", scores |-> MapBack(response.pairs, <<>>)]

\* the keywords of category_keywords that occur in a lowercased phrase
KeywordsIn(p) ==
    CASE p = "how to kill myself" -> { "kill" }
      [] p = "free money click here" -> { "free money", "click here" }
      [] p = "kill hurt bomb attack" -> { "kill", "hurt", "bomb", "attack" }
      [] p = "nude sexual xxx" -> { "nude", "sexual", "xxx" }
      [] OTHER -> {}

category_keywords(category) ==
    CASE category = "HATE_SPEECH" -> { "slur", "racial", "ethnic", "racist", "discrimination" }
      [] category = "HARASSMENT" -> { "bully", "attack", "harassment", "threaten", "doxx" }
      [] category = "VIOLENCE_INCITEMENT" -> { "kill", "hurt", "violence", "attack", "bomb" }
      [] category = "SEXUAL_EXPLICIT" -> { "sexual", "nude", "pornography", "xxx", "explicit" }
      [] category = "SELF_HARM" -> { "suicide", "cut", "self-harm", "eat disorder", "die" }
      [] category = "SCAM_SPAM" -> { "scam", "fraud", "phishing", "free money", "click here" }
      [] category = "MISINFO_HIGH_HARM" -> { "fake", "hoax", "false", "misinformation", "conspiracy" }
      [] OTHER -> {}

\* sum(1 for kw in keywords if kw in text_lower)
match_count(category, text) ==
    LET text_lower == Lower(text) IN
    Cardinality({ kw \in category_keywords(category) :
                    \E i \in 1..Len(text_lower) : kw \in KeywordsIn(text_lower[i]) })

\* the boost without its 0.15 cap
boost_one_uncapped(category, score, text) ==
    IF match_count(category, text) > 0
    THEN Min(One, score + match_count(category, text) * BOOST_STEP)
    ELSE score

\* the boosted score of one category
boost_one(category, score, text) ==
    IF match_count(category, text) > 0
    THEN Min(One, score + Min(BOOST_CAP, match_count(category, text) * BOOST_STEP))
    ELSE score

apply_keyword_boost(scores, text) ==
    [ i \in 1..Len(scores) |->
        [k |-> scores[i].k, v |-> boost_one(scores[i].k, scores[i].v, text)] ]

\* risk_level with HIGH from 0.85 on
risk_level_high_inclusive(score) ==
    IF score >= HIGH_RISK THEN "HIGH"
    ELSE IF score > MEDIUM_RISK THEN "MEDIUM"
    ELSE "LOW"

\* risk_level with MEDIUM from 0.60 on
risk_level_medium_inclusive(score) ==
    IF score > HIGH_RISK THEN "HIGH"
    ELSE IF score >= MEDIUM_RISK THEN "MEDIUM"
    ELSE "LOW"

\* the risk level of one score
risk_level(score) ==
    IF score > HIGH_RISK THEN "HIGH"
    ELSE IF score > MEDIUM_RISK THEN "MEDIUM"
    ELSE "LOW"

\* risk_levels of moderate, a dict with the keys of scores
categorize(scores) == [ cat \in DictKeys(scores) |-> risk_level(DictGet(scores, cat)) ]

\* max(scores.items(), key=lambda x: x[1]): the first item holding the largest value
primary_item(scores) ==
    scores[CHOOSE i \in 1..Len(scores) :
             /\ \A j \in 1..Len(scores) : scores[j].v <= scores[i].v
             /\ \A j \in 1..(i-1) : scores[j].v < scores[i].v]

\* the guardrail branch starting from the neutral scores instead of zeros
guardrail_scores_neutral(category) == DictSet(ConstDict(FALLBACK), category, One)

\* the guardrail branch giving the fired category 0.90 instead of 1.0
guardrail_scores_ninety(category) == DictSet(ConstDict(0), category, REMOVE_SCORE)

\* the scores of the guardrail branch
guardrail_scores(category) == DictSet(ConstDict(0), category, One)

NoMod == [scores |-> <<>>, risk_levels |-> <<>>, primary_violation |-> "",
          primary_score |-> 0, evidence |-> <<>>]

NoNli == [status |-> "skipped", scores |-> <<>>]

\* moderate: ok is FALSE when max() raises on an empty scores dict
moderate(classifier, text, response) ==
    LET g == check_guardrails(text)
        c == IF g.fired THEN NoNli ELSE classify_with_nli(classifier, response)
        scores == IF g.fired THEN guardrail_scores(g.category)
                  ELSE apply_keyword_boost(c.scores, text)
        evidence_list == IF g.fired THEN <<g.evidence>> ELSE <<>>
    IN  [ guard |-> g, nli |-> c, ok |-> scores # <<>>,
          mod |-> IF scores = <<>> THEN NoMod
                  ELSE [scores |-> scores,
                        risk_levels |-> categorize(scores),
                        primary_violation |-> primary_item(scores).k,
                        primary_score |-> primary_item(scores).v,
                        evidence |-> evidence_list] ]

---------------------------------------------------------------------------
(* decision.py *)

\* risk_levels.get(cat) == level
LevelIs(risk_levels, cat, level) ==
    cat \in DOMAIN risk_levels /\ risk_levels[cat] = level

\* sum(1 for rl in risk_levels.values() if rl == "MEDIUM")
medium_count(risk_levels) ==
    Cardinality({ cat \in DOMAIN risk_levels : risk_levels[cat] = "MEDIUM" })

Triple(d, a, p) == [decision |-> d, action |-> a, priority |-> p]

\* compute_overall_decision with rule 2 tried before rule 1
compute_overall_decision_remove_first(m) ==
    IF /\ m.primary_score > REMOVE_SCORE
       /\ m.primary_violation \in { "HATE_SPEECH", "SCAM_SPAM", "VIOLENCE_INCITEMENT" }
    THEN Triple("REMOVE", "BLOCK_AND_REPORT", "P1")
    ELSE IF \E i \in 1..Len(CRITICAL_CATEGORIES) :
          LevelIs(m.risk_levels, CRITICAL_CATEGORIES[i], "HIGH")
    THEN Triple("ESCALATE_TO_HUMAN", "ESCALATE_FOR_HUMAN_REVIEW", "P0")
    ELSE IF medium_count(m.risk_levels) >= 2
    THEN Triple("ESCALATE_TO_HUMAN", "HOLD_FOR_REVIEW", "P2")
    ELSE IF /\ LevelIs(m.risk_levels, "SEXUAL_EXPLICIT", "MEDIUM")
            /\ m.primary_score > MEDIUM_RISK
    THEN Triple("AGE_RESTRICT", "ADD_AGE_RESTRICTION", "P3")
    ELSE IF AMBIGUOUS_LOW < m.primary_score /\ m.primary_score < AMBIGUOUS_HIGH
    THEN Triple("ESCALATE_TO_HUMAN", "HOLD_FOR_HUMAN_REVIEW", "P3")
    ELSE Triple("APPROVED", "APPROVE_CONTENT", "P3")

\* compute_overall_decision with rule 4 tried before rule 3
compute_overall_decision_age_first(m) ==
    IF \E i \in 1..Len(CRITICAL_CATEGORIES) :
          LevelIs(m.risk_levels, CRITICAL_CATEGORIES[i], "HIGH")
    THEN Triple("ESCALATE_TO_HUMAN", "ESCALATE_FOR_HUMAN_REVIEW", "P0")
    ELSE IF /\ m.primary_score > REMOVE_SCORE
            /\ m.primary_violation \in { "HATE_SPEECH", "SCAM_SPAM", "VIOLENCE_INCITEMENT" }
    THEN Triple("REMOVE", "BLOCK_AND_REPORT", "P1")
    ELSE IF /\ LevelIs(m.risk_levels, "SEXUAL_EXPLICIT", "MEDIUM")
            /\ m.primary_score > MEDIUM_RISK
    THEN Triple("AGE_RESTRICT", "ADD_AGE_RESTRICTION", "P3")
    ELSE IF medium_count(m.risk_levels) >= 2
    THEN Triple("ESCALATE_TO_HUMAN", "HOLD_FOR_REVIEW", "P2")
    ELSE IF AMBIGUOUS_LOW < m.primary_score /\ m.primary_score < AMBIGUOUS_HIGH
    THEN Triple("ESCALATE_TO_HUMAN", "HOLD_FOR_HUMAN_REVIEW", "P3")
    ELSE Triple("APPROVED", "APPROVE_CONTENT", "P3")

\* compute_overall_decision with rule 3 tried before rule 2
compute_overall_decision_medium_first(m) ==
    IF \E i \in 1..Len(CRITICAL_CATEGORIES) :
          LevelIs(m.risk_levels, CRITICAL_CATEGORIES[i], "HIGH")
    THEN Triple("ESCALATE_TO_HUMAN", "ESCALATE_FOR_HUMAN_REVIEW", "P0")
    ELSE IF medium_count(m.risk_levels) >= 2
    THEN Triple("ESCALATE_TO_HUMAN", "HOLD_FOR_REVIEW", "P2")
    ELSE IF /\ m.primary_score > REMOVE_SCORE
            /\ m.primary_violation \in { "HATE_SPEECH", "SCAM_SPAM", "VIOLENCE_INCITEMENT" }
    THEN Triple("REMOVE", "BLOCK_AND_REPORT", "P1")
    ELSE IF /\ LevelIs(m.risk_levels, "SEXUAL_EXPLICIT", "MEDIUM")
            /\ m.primary_score > MEDIUM_RISK
    THEN Triple("AGE_RESTRICT", "ADD_AGE_RESTRICTION", "P3")
    ELSE IF AMBIGUOUS_LOW < m.primary_score /\ m.primary_score < AMBIGUOUS_HIGH
    THEN Triple("ESCALATE_TO_HUMAN", "HOLD_FOR_HUMAN_REVIEW", "P3")
    ELSE Triple("APPROVED", "APPROVE_CONTENT", "P3")

\* compute_overall_decision with rule 5 from 0.5 on
compute_overall_decision_ambiguous_inclusive(m) ==
    IF \E i \in 1..Len(CRITICAL_CATEGORIES) :
          LevelIs(m.risk_levels, CRITICAL_CATEGORIES[i], "HIGH")
    THEN Triple("ESCALATE_TO_HUMAN", "ESCALATE_FOR_HUMAN_REVIEW", "P0")
    ELSE IF /\ m.primary_score > REMOVE_SCORE
            /\ m.primary_violation \in { "HATE_SPEECH", "SCAM_SPAM", "VIOLENCE_INCITEMENT" }
    THEN Triple("REMOVE", "BLOCK_AND_REPORT", "P1")
    ELSE IF medium_count(m.risk_levels) >= 2
    THEN Triple("ESCALATE_TO_HUMAN", "HOLD_FOR_REVIEW", "P2")
    ELSE IF /\ LevelIs(m.risk_levels, "SEXUAL_EXPLICIT", "MEDIUM")
            /\ m.primary_score > MEDIUM_RISK
    THEN Triple("AGE_RESTRICT", "ADD_AGE_RESTRICTION", "P3")
    ELSE IF AMBIGUOUS_LOW <= m.primary_score /\ m.primary_score < AMBIGUOUS_HIGH
    THEN Triple("ESCALATE_TO_HUMAN", "HOLD_FOR_HUMAN_REVIEW", "P3")
    ELSE Triple("APPROVED", "APPROVE_CONTENT", "P3")

\* compute_overall_decision with rule 2 for any primary category
compute_overall_decision_remove_any(m) ==
    IF \E i \in 1..Len(CRITICAL_CATEGORIES) :
          LevelIs(m.risk_levels, CRITICAL_CATEGORIES[i], "HIGH")
    THEN Triple("ESCALATE_TO_HUMAN", "ESCALATE_FOR_HUMAN_REVIEW", "P0")
    ELSE IF m.primary_score > REMOVE_SCORE
    THEN Triple("REMOVE", "BLOCK_AND_REPORT", "P1")
    ELSE IF medium_count(m.risk_levels) >= 2
    THEN Triple("ESCALATE_TO_HUMAN", "HOLD_FOR_REVIEW", "P2")
    ELSE IF /\ LevelIs(m.risk_levels, "SEXUAL_EXPLICIT", "MEDIUM")
            /\ m.primary_score > MEDIUM_RISK
    THEN Triple("AGE_RESTRICT", "ADD_AGE_RESTRICTION", "P3")
    ELSE IF AMBIGUOUS_LOW < m.primary_score /\ m.primary_score < AMBIGUOUS_HIGH
    THEN Triple("ESCALATE_TO_HUMAN", "HOLD_FOR_HUMAN_REVIEW", "P3")
    ELSE Triple("APPROVED", "APPROVE_CONTENT", "P3")

\* compute_overall_decision with rule 5 asking for more context
compute_overall_decision_need_context(m) ==
    IF \E i \in 1..Len(CRITICAL_CATEGORIES) :
          LevelIs(m.risk_levels, CRITICAL_CATEGORIES[i], "HIGH")
    THEN Triple("ESCALATE_TO_HUMAN", "ESCALATE_FOR_HUMAN_REVIEW", "P0")
    ELSE IF /\ m.primary_score > REMOVE_SCORE
            /\ m.primary_violation \in { "HATE_SPEECH", "SCAM_SPAM", "VIOLENCE_INCITEMENT" }
    THEN Triple("REMOVE", "BLOCK_AND_REPORT", "P1")
    ELSE IF medium_count(m.risk_levels) >= 2
    THEN Triple("ESCALATE_TO_HUMAN", "HOLD_FOR_REVIEW", "P2")
    ELSE IF /\ LevelIs(m.risk_levels, "SEXUAL_EXPLICIT", "MEDIUM")
            /\ m.primary_score > MEDIUM_RISK
    THEN Triple("AGE_RESTRICT", "ADD_AGE_RESTRICTION", "P3")
    ELSE IF AMBIGUOUS_LOW < m.primary_score /\ m.primary_score < AMBIGUOUS_HIGH
    THEN Triple("NEED_MORE_CONTEXT", "HOLD_FOR_HUMAN_REVIEW", "P3")
    ELSE Triple("APPROVED", "APPROVE_CONTENT", "P3")

compute_overall_decision(m) ==
    IF \E i \in 1..Len(CRITICAL_CATEGORIES) :
          LevelIs(m.risk_levels, CRITICAL_CATEGORIES[i], "HIGH")
    THEN Triple("ESCALATE_TO_HUMAN", "ESCALATE_FOR_HUMAN_REVIEW", "P0")
    ELSE IF /\ m.primary_score > REMOVE_SCORE
            /\ m.primary_violation \in { "HATE_SPEECH", "SCAM_SPAM", "VIOLENCE_INCITEMENT" }
    THEN Triple("REMOVE", "BLOCK_AND_REPORT", "P1")
    ELSE IF medium_count(m.risk_levels) >= 2
    THEN Triple("ESCALATE_TO_HUMAN", "HOLD_FOR_REVIEW", "P2")
    ELSE IF /\ LevelIs(m.risk_levels, "SEXUAL_EXPLICIT", "MEDIUM")
            /\ m.primary_score > MEDIUM_RISK
    THEN Triple("AGE_RESTRICT", "ADD_AGE_RESTRICTION", "P3")
    ELSE IF AMBIGUOUS_LOW < m.primary_score /\ m.primary_score < AMBIGUOUS_HIGH
    THEN Triple("ESCALATE_TO_HUMAN", "HOLD_FOR_HUMAN_REVIEW", "P3")
    ELSE Triple("APPROVED", "APPROVE_CONTENT", "P3")

NoDecision == Triple("", "", "")

\* the template generate_notes picks
generate_notes(m, decision) ==
    IF decision = "REMOVE" THEN "High confidence, immediate removal recommended"
    ELSE IF decision = "AGE_RESTRICT" THEN "Mature content, age restriction recommended"
    ELSE IF decision = "ESCALATE_TO_HUMAN"
    THEN IF m.primary_score < AMBIGUOUS_HIGH
         THEN "Borderline confidence, requires human judgment"
         ELSE "High confidence, escalated due to policy sensitivity"
    ELSE "Content passes all checks"

\* overall confidence taken from the first category instead of the largest
overall_confidence_first(scores) ==
    IF scores = <<>> THEN FALLBACK ELSE scores[1].v

\* max(scores.values()) if scores else 0.5
overall_confidence(scores) ==
    IF scores = <<>> THEN FALLBACK
    ELSE CHOOSE x \in { scores[i].v : i \in 1..Len(scores) } :
            \A j \in 1..Len(scores) : scores[j].v <= x

\* category_results attaching the evidence to every category
category_results_all_evidence(m) ==
    [ cat \in DictKeys(m.scores) |->
        [risk_level |-> m.risk_levels[cat],
         score |-> DictGet(m.scores, cat),
         evidence |-> m.evidence] ]

\* the CategoryScore of each key of scores
category_results(m) ==
    [ cat \in DictKeys(m.scores) |->
        [risk_level |-> m.risk_levels[cat],
         score |-> DictGet(m.scores, cat),
         evidence |-> IF cat = m.primary_violation THEN m.evidence ELSE <<>>] ]

NoResult ==
    [overall_decision |-> "", confidence_score |-> 0, primary_violation |-> "",
     categories |-> <<>>, action_recommendation |-> "", escalation_priority |-> "",
     notes_for_human_reviewer |-> ""]

create_result(m) ==
    LET d == compute_overall_decision(m) IN
    [overall_decision |-> d.decision,
     confidence_score |-> overall_confidence(m.scores),
     primary_violation |-> m.primary_violation,
     categories |-> category_results(m),
     action_recommendation |-> d.action,
     escalation_priority |-> d.priority,
     notes_for_human_reviewer |-> generate_notes(m, d.decision)]

---------------------------------------------------------------------------
(* schemas.py and the Batch Upload mode of app.py *)

\* an element of the uploaded JSON array that is not an object
NotAnObject == [object |-> FALSE, required |-> FALSE, duration |-> 0, empty_answer |-> FALSE]

\* the elements of an uploaded array: objects with or without the required
\* fields, with a duration, for which the classifier may return no label at
\* all (moderate then raises), and elements that are not objects
Items ==
    { NotAnObject }
    \cup { [object |-> TRUE, required |-> r, duration |-> d, empty_answer |-> e] :
              r \in BOOLEAN, d \in { 0, 1, 3600, 3601 }, e \in BOOLEAN }

Batches == UNION { [1..n -> Items] : n \in 0..MaxBatch }

\* validate_duration raises ValueError
validate_duration_raises(v) == v <= 0 \/ v > 3600

\* ShortMetadata(**short) raises: TypeError for a non-mapping, a validation
\* error for a missing required field or a bad duration
ShortMetadata_raises(short) ==
    \/ ~short.object
    \/ ~short.required
    \/ validate_duration_raises(short.duration)

\* short.get('short_id', '?') in the except branch raises AttributeError
\* when short is not a dict
warning_raises(short) == ~short.object

\* one pass of the loop body: "appended", "skipped" (the except branch ran
\* through), or "aborted" (the except branch itself raised)
process_short(short) ==
    IF ShortMetadata_raises(short) \/ short.empty_answer
    THEN IF warning_raises(short) THEN "aborted" ELSE "skipped"
    ELSE "appended"

NoBatch == [pc |-> "none", shorts |-> <<>>, idx |-> 0, results |-> <<>>]

---------------------------------------------------------------------------
(* The pipeline: get_engine, then moderate and create_result per item *)

Init ==
    /\ engine = "unset"
    /\ pc = "idle"
    /\ context = <<>>
    /\ guard = NoGuard
    /\ nli = NoNli
    /\ mod = NoMod
    /\ result = NoResult
    /\ verdict = NoDecision
    /\ batch = NoBatch
    /\ instances = <<>>
    /\ calls = <<>>

\* what pipeline("zero-shot-classification", ...) does in the constructor
Loads == { "ok", "fails" }

\* ModerationEngine.__init__: self.classifier is the loaded pipeline, or
\* None when loading raised
ModerationEngine(load) == IF load = "ok" THEN "loaded" ELSE "None"

\* get_engine that builds a new ModerationEngine at every call
get_engine_rebuilds(eng, objs, load) ==
    [engine |-> ModerationEngine(load),
     instances |-> Append(objs, ModerationEngine(load)),
     returned |-> Len(objs) + 1]

\* get_engine(): eng is the classifier of the global engine, "unset" while
\* the global is None; objs are the instances built so far. get_engine is
\* the only writer of the global and assigns what it has just built, so the
\* global is the last of objs. Returns the new global, the instances and
\* the position of the instance handed to the caller.
get_engine(eng, objs, load) ==
    IF eng = "unset"
    THEN [engine |-> ModerationEngine(load),
          instances |-> Append(objs, ModerationEngine(load)),
          returned |-> Len(objs) + 1]
    ELSE [engine |-> eng, instances |-> objs, returned |-> Len(objs)]

\* the first get_engine() of the process, which builds the engine
GetEngine ==
    /\ pc = "idle"
    /\ engine = "unset"
    /\ \E load \in Loads :
          LET r == get_engine(engine, instances, load) IN
          /\ engine' = r.engine
          /\ instances' = r.instances
          /\ calls' = Append(calls, r.returned)
    /\ UNCHANGED <<pc, context, guard, nli, mod, result, verdict, batch>>

\* what self.classifier does when moderate gets as far as calling it; it is
\* not called when a guardrail fires or when the model failed to load
CallsOf(classifier, text) ==
    IF check_guardrails(text).fired \/ classifier = "None"
    THEN { [kind |-> "not called", pairs |-> <<>>] }
    ELSE ClassifierResponses

\* engine.moderate(item): returns its dict, or raises when max() gets an
\* empty scores dict
Moderate ==
    /\ engine # "unset"
    /\ pc = "idle"
    /\ \E text \in Contexts : \E response \in CallsOf(engine, text) :
          LET r == moderate(engine, text, response) IN
          /\ context' = text
          /\ guard' = r.guard
          /\ nli' = r.nli
          /\ mod' = r.mod
          /\ pc' = IF r.ok THEN "moderated" ELSE "failed"
    /\ UNCHANGED <<engine, result, verdict, batch, instances, calls>>

\* decision_logic.create_result(item, moderation_result)
CreateResult ==
    /\ pc = "moderated"
    /\ result' = create_result(mod)
    /\ pc' = "done"
    /\ UNCHANGED <<engine, context, guard, nli, mod, verdict, batch, instances, calls>>

\* the handler returns; the next item starts from a clean slate
NextItem ==
    /\ pc \in { "done", "failed" }
    /\ pc' = "idle"
    /\ context' = <<>>
    /\ guard' = NoGuard
    /\ nli' = NoNli
    /\ mod' = NoMod
    /\ result' = NoResult
    /\ UNCHANGED <<engine, verdict, batch, instances, calls>>

Next == GetEngine \/ Moderate \/ CreateResult \/ NextItem

Spec == Init /\ [][Next]_vars

---------------------------------------------------------------------------
(* compute_overall_decision called on its own, as test_system.py does *)

\* values of primary_score around every threshold of the table
PrimaryScores == { 50, 55, 60, 61, 70, 90, 91 }

Levels == { "LOW", "MEDIUM", "HIGH" }

\* risk_levels dicts: complete ones, and ones holding only the first n keys
RiskLevelDicts ==
    UNION { [ { CategoryOrder[i] : i \in 1..n } -> Levels ] : n \in 0..Len(CategoryOrder) }

DecisionInputs ==
    { [scores |-> ConstDict(10), risk_levels |-> rl, primary_violation |-> pv,
       primary_score |-> ps, evidence |-> <<>>] :
        rl \in RiskLevelDicts, pv \in Categories, ps \in PrimaryScores }

InitDecision ==
    /\ engine = "unset"
    /\ pc = "call"
    /\ context = <<>>
    /\ guard = NoGuard
    /\ nli = NoNli
    /\ mod \in DecisionInputs
    /\ result = NoResult
    /\ verdict = NoDecision
    /\ batch = NoBatch
    /\ instances = <<>>
    /\ calls = <<>>

\* decision_logic.compute_overall_decision(mod_result)
Decide ==
    /\ pc = "call"
    /\ verdict' = compute_overall_decision(mod)
    /\ pc' = "returned"
    /\ UNCHANGED <<engine, context, guard, nli, mod, result, batch, instances, calls>>

NextDecision == Decide

SpecDecision == InitDecision /\ [][NextDecision]_vars

---------------------------------------------------------------------------
(* The pipeline together with direct calls of compute_overall_decision *)

InitAll == Init \/ InitDecision

NextAll == Next \/ NextDecision

SpecAll == InitAll /\ [][NextAll]_vars

---------------------------------------------------------------------------
(* The Batch Upload handler, one step per pass of its loop *)

InitBatch ==
    /\ engine = "unset"
    /\ pc = "idle"
    /\ context = <<>>
    /\ guard = NoGuard
    /\ nli = NoNli
    /\ mod = NoMod
    /\ result = NoResult
    /\ verdict = NoDecision
    /\ batch = NoBatch
    /\ instances = <<>>
    /\ calls = <<>>

\* "Process Batch" is clicked: the file is loaded and results = []
BatchUpload ==
    /\ batch.pc = "none"
    /\ \E shorts \in Batches :
          batch' = [pc |-> "running", shorts |-> shorts, idx |-> 0, results |-> <<>>]
    /\ UNCHANGED <<engine, pc, context, guard, nli, mod, result, verdict, instances, calls>>

\* one pass of "for idx, short in enumerate(shorts)"; results holds the
\* positions of the items whose ModerationResult was appended
BatchItem ==
    /\ batch.pc = "running"
    /\ batch.idx < Len(batch.shorts)
    /\ LET outcome == process_short(batch.shorts[batch.idx + 1]) IN
          batch' = [batch EXCEPT
                      !.pc = IF outcome = "aborted" THEN "aborted" ELSE "running",
                      !.idx = batch.idx + 1,
                      !.results = IF outcome = "appended"
                                  THEN Append(batch.results, batch.idx + 1)
                                  ELSE batch.results]
    /\ UNCHANGED <<engine, pc, context, guard, nli, mod, result, verdict, instances, calls>>

\* the loop is over: the counts and the results table are shown
BatchFinish ==
    /\ batch.pc = "running"
    /\ batch.idx = Len(batch.shorts)
    /\ batch' = [batch EXCEPT !.pc = "finished"]
    /\ UNCHANGED <<engine, pc, context, guard, nli, mod, result, verdict, instances, calls>>

NextBatch == BatchUpload \/ BatchItem \/ BatchFinish

SpecBatch == InitBatch /\ [][NextBatch]_vars

---------------------------------------------------------------------------
(* get_engine called again and again in one process, each call followed by
   classify_with_nli on the instance it returned *)

InitEngine ==
    /\ engine = "unset"
    /\ pc = "engine"
    /\ context = <<>>
    /\ guard = NoGuard
    /\ nli = NoNli
    /\ mod = NoMod
    /\ result = NoResult
    /\ verdict = NoDecision
    /\ batch = NoBatch
    /\ instances = <<>>
    /\ calls = <<>>

\* eng = get_engine() at the start of a handler; what the handler before
\* it computed is gone
GetEngineCall ==
    /\ pc = "engine"
    /\ Len(calls) < MaxCalls
    /\ \E load \in Loads :
          LET r == get_engine(engine, instances, load) IN
          /\ engine' = r.engine
          /\ instances' = r.instances
          /\ calls' = Append(calls, r.returned)
    /\ nli' = NoNli
    /\ pc' = "got"
    /\ UNCHANGED <<context, guard, mod, result, verdict, batch>>

\* eng.classify_with_nli(text), eng being what the call returned; the
\* classifier is only called when it is not None
Classify ==
    /\ pc = "got"
    /\ LET classifier == instances[calls[Len(calls)]] IN
       \E response \in IF classifier = "None"
                       THEN { [kind |-> "not called", pairs |-> <<>>] }
                       ELSE ClassifierResponses :
          nli' = classify_with_nli(classifier, response)
    /\ pc' = "engine"
    /\ UNCHANGED <<engine, context, guard, mod, result, verdict, batch, instances, calls>>

NextEngine == GetEngineCall \/ Classify

SpecEngine == InitEngine /\ [][NextEngine]_vars

---------------------------------------------------------------------------
(* Properties *)

\* moderate has returned for the current item
Moderated == pc \in { "moderated", "done" }

\* position of a category in the canonical order
CanonIndex(cat) == CHOOSE i \in 1..Len(CategoryOrder) : CategoryOrder[i] = cat

\* C1: whenever a guardrail fires, the dict moderate returns holds the fired
\* category at score 1.0 and HIGH, the six others at 0.0 and LOW, and names
\* the fired category as primary_violation.
C1_GuardrailSaturates ==
    (Moderated /\ guard.fired) =>
        /\ DictKeys(mod.scores) = Categories
        /\ Len(mod.scores) = 7
        /\ DOMAIN mod.risk_levels = Categories
        /\ \A cat \in Categories :
              IF cat = guard.category
              THEN DictGet(mod.scores, cat) = 100 /\ mod.risk_levels[cat] = "HIGH"
              ELSE DictGet(mod.scores, cat) = 0 /\ mod.risk_levels[cat] = "LOW"
        /\ mod.primary_violation = guard.category
        /\ mod.primary_score = 100

\* a guardrail fired on a context that also holds boost keywords of another
\* category, with the model loaded
C1_Witness ==
    /\ pc = "done"
    /\ engine = "loaded"
    /\ guard.fired
    /\ guard.category = "HATE_SPEECH"
    /\ match_count("SEXUAL_EXPLICIT", context) = 3

\* the six-rule table of the decision policy, read on the input of the call
Rule1 ==
    \/ LevelIs(mod.risk_levels, "SELF_HARM", "HIGH")
    \/ LevelIs(mod.risk_levels, "VIOLENCE_INCITEMENT", "HIGH")

Rule2 ==
    /\ mod.primary_score > 90
    /\ mod.primary_violation \in { "HATE_SPEECH", "SCAM_SPAM", "VIOLENCE_INCITEMENT" }

Rule3 ==
    \E c1, c2 \in Categories :
        /\ c1 # c2
        /\ LevelIs(mod.risk_levels, c1, "MEDIUM")
        /\ LevelIs(mod.risk_levels, c2, "MEDIUM")

Rule4 == LevelIs(mod.risk_levels, "SEXUAL_EXPLICIT", "MEDIUM") /\ mod.primary_score > 60

Rule5 == mod.primary_score > 50 /\ mod.primary_score < 70

\* C2: compute_overall_decision returns the outcome of the first matching
\* rule of the six-rule table, for every input.
C2_FirstMatchingRule ==
    pc = "returned" =>
        verdict =
            IF Rule1 THEN Triple("ESCALATE_TO_HUMAN", "ESCALATE_FOR_HUMAN_REVIEW", "P0")
            ELSE IF Rule2 THEN Triple("REMOVE", "BLOCK_AND_REPORT", "P1")
            ELSE IF Rule3 THEN Triple("ESCALATE_TO_HUMAN", "HOLD_FOR_REVIEW", "P2")
            ELSE IF Rule4 THEN Triple("AGE_RESTRICT", "ADD_AGE_RESTRICTION", "P3")
            ELSE IF Rule5 THEN Triple("ESCALATE_TO_HUMAN", "HOLD_FOR_HUMAN_REVIEW", "P3")
            ELSE Triple("APPROVED", "APPROVE_CONTENT", "P3")

\* rules 3, 4 and 5 all match an input that rules 1 and 2 do not, and the
\* call returned the outcome of rule 3
C2_Witness ==
    /\ pc = "returned"
    /\ ~Rule1 /\ ~Rule2 /\ Rule3 /\ Rule4 /\ Rule5
    /\ verdict.priority = "P2"

\* C3: an input satisfying both rule 1 and rule 2 resolves to
\* ESCALATE_TO_HUMAN with priority P0, never to REMOVE / P1.
C3_Rule1BeforeRule2 ==
    (pc = "returned" /\ Rule1 /\ Rule2) =>
        /\ verdict.decision = "ESCALATE_TO_HUMAN"
        /\ verdict.priority = "P0"
        /\ verdict.decision # "REMOVE"
        /\ verdict.priority # "P1"

\* SELF_HARM is HIGH while HATE_SPEECH is primary above 0.90
C3_Witness ==
    /\ pc = "returned"
    /\ LevelIs(mod.risk_levels, "SELF_HARM", "HIGH")
    /\ mod.primary_violation = "HATE_SPEECH"
    /\ mod.primary_score = 91
    /\ verdict.priority = "P0"

\* C4: confidence_score of a ModerationResult is the maximum of the scores of
\* its categories, and the score of its primary_violation.
C4_ConfidenceIsMax ==
    pc = "done" =>
        /\ \A cat \in DOMAIN result.categories :
              result.categories[cat].score <= result.confidence_score
        /\ \E cat \in DOMAIN result.categories :
              result.categories[cat].score = result.confidence_score
        /\ result.primary_violation \in DOMAIN result.categories
        /\ result.categories[result.primary_violation].score = result.confidence_score

\* a result whose maximum was made by the keyword boost: the classifier's
\* best category is not the primary one
C4_Witness ==
    /\ pc = "done"
    /\ nli.status = "returned"
    /\ Len(nli.scores) = 7
    /\ result.confidence_score = 85
    /\ DictGet(nli.scores, "HATE_SPEECH") = 70
    /\ result.primary_violation = "VIOLENCE_INCITEMENT"

\* C5: when several categories share the maximum adjusted score,
\* primary_violation is the one earliest in the canonical order.
C5_TieBreakCanonical ==
    Moderated =>
        \A i \in 1..Len(mod.scores) :
            mod.scores[i].v = mod.primary_score =>
                CanonIndex(mod.primary_violation) <= CanonIndex(mod.scores[i].k)

\* the three-way rank of a risk level
LevelRank(level) == CASE level = "LOW" -> 0 [] level = "MEDIUM" -> 1 [] level = "HIGH" -> 2

\* C6: every score of the dict of moderate is binned to exactly one level,
\* HIGH above 0.85, MEDIUM above 0.60 up to 0.85, LOW up to 0.60, and a
\* higher score never gets a lower level.
C6_BinningThresholds ==
    Moderated =>
        /\ DOMAIN mod.risk_levels = DictKeys(mod.scores)
        /\ \A i \in 1..Len(mod.scores) :
              LET lvl == mod.risk_levels[mod.scores[i].k]
                  sc == mod.scores[i].v
              IN  /\ lvl \in { "LOW", "MEDIUM", "HIGH" }
                  /\ (lvl = "HIGH") <=> (sc > 85)
                  /\ (lvl = "MEDIUM") <=> (sc > 60 /\ sc <= 85)
                  /\ (lvl = "LOW") <=> (sc <= 60)
        /\ \A i, j \in 1..Len(mod.scores) :
              mod.scores[i].v <= mod.scores[j].v =>
                  LevelRank(mod.risk_levels[mod.scores[i].k])
                      <= LevelRank(mod.risk_levels[mod.scores[j].k])

\* one dict holding all three levels, its LOW score exactly 0.60
C6_Witness ==
    /\ Moderated
    /\ \E i, j, k \in 1..Len(mod.scores) :
          /\ mod.risk_levels[mod.scores[i].k] = "MEDIUM"
          /\ mod.risk_levels[mod.scores[j].k] = "HIGH"
          /\ mod.scores[k].v = 60 /\ mod.risk_levels[mod.scores[k].k] = "LOW"

\* C7 as stated: scores of exactly 0.60 and of exactly 0.85 are both MEDIUM.
C7_BoundariesBothMedium ==
    Moderated =>
        \A i \in 1..Len(mod.scores) :
            mod.scores[i].v \in { 60, 85 } => mod.risk_levels[mod.scores[i].k] = "MEDIUM"

\* C7 amended: a score of exactly 0.60 is LOW and one of exactly 0.85 is
\* MEDIUM.
C7_BoundaryLevels ==
    Moderated =>
        \A i \in 1..Len(mod.scores) :
            /\ mod.scores[i].v = 60 => mod.risk_levels[mod.scores[i].k] = "LOW"
            /\ mod.scores[i].v = 85 => mod.risk_levels[mod.scores[i].k] = "MEDIUM"

\* one dict holding a score of exactly 0.60 and one of exactly 0.85
C7_Witness ==
    /\ Moderated
    /\ \E i, j \in 1..Len(mod.scores) : mod.scores[i].v = 60 /\ mod.scores[j].v = 85

\* C8: with no guardrail hit, when the model is not loaded or the call
\* raises, moderate returns a dict over all seven categories, each of which
\* classify_with_nli scored 0.5.
C8_DegradedFallback ==
    (pc # "idle" /\ ~guard.fired /\ nli.status \in { "unavailable", "raised" }) =>
        /\ pc # "failed"
        /\ Len(nli.scores) = 7
        /\ \A cat \in Categories : DictHas(nli.scores, cat) /\ DictGet(nli.scores, cat) = 50
        /\ DictKeys(mod.scores) = Categories
        /\ DOMAIN mod.risk_levels = Categories
        /\ mod.primary_violation \in Categories

\* the loaded classifier raised on a context that holds boost keywords, and
\* the item went through to its result
C8_Witness ==
    /\ pc = "done"
    /\ engine = "loaded"
    /\ ~guard.fired
    /\ nli.status = "raised"
    /\ DictGet(mod.scores, "SCAM_SPAM") = 60

\* C9: an answer of the classifier with fewer than seven labels falls back
\* to 0.5 for all categories, and every ModerationResult holds all seven
\* category keys.
C9_NeverPartial ==
    /\ (Moderated /\ nli.status = "returned") => DictKeys(nli.scores) = Categories
    /\ pc = "done" => DOMAIN result.categories = Categories

\* the pattern groups that match a context, by themselves
CsamMatches == \E i \in 1..Len(context) : LowerPhrase(context[i]) = "loli"

SelfHarmMatches == \E i \in 1..Len(context) : LowerPhrase(context[i]) = "how to kill myself"

SlurMatches == \E i \in 1..Len(context) : LowerPhrase(context[i]) = "dyke"

ScamLinkMatches ==
    \/ \E i \in 1..Len(context) : context[i] = "t.me crypto"
    \/ \E i, j \in 1..Len(context) :
          i < j /\ context[i] = "bit.ly" /\ context[j] = "free money click here"

\* C10: check_guardrails returns the outcome of the first matching group in
\* the order CSAM, self-harm, slur, scam link, and fired = false exactly when
\* no group matches.
C10_GuardrailPriority ==
    pc # "idle" =>
        /\ guard.fired <=> (CsamMatches \/ SelfHarmMatches \/ SlurMatches \/ ScamLinkMatches)
        /\ CsamMatches =>
              /\ guard.category = "SELF_HARM"
              /\ guard.evidence = <<"CSAM indicators detected - IMMEDIATE ESCALATION">>
        /\ (~CsamMatches /\ SelfHarmMatches) =>
              /\ guard.category = "SELF_HARM"
              /\ guard.evidence = <<"Explicit self-harm content detected">>
        /\ (~CsamMatches /\ ~SelfHarmMatches /\ SlurMatches) =>
              /\ guard.category = "HATE_SPEECH"
              /\ guard.evidence = <<"Slur detected: ", "dyke">>
        /\ (~CsamMatches /\ ~SelfHarmMatches /\ ~SlurMatches /\ ScamLinkMatches) =>
              /\ guard.category = "SCAM_SPAM"
              /\ guard.evidence = <<"Malicious link + scam keywords detected">>
        /\ ~guard.fired => guard = NoGuard

\* a context matching both the slur group and the scam-link group
C10_Witness ==
    /\ pc # "idle"
    /\ SlurMatches /\ ScamLinkMatches /\ ~CsamMatches /\ ~SelfHarmMatches
    /\ guard.category = "HATE_SPEECH"

\* C11: an item whose context holds an explicit self-harm phrase fires the
\* guardrail with SELF_HARM, gets SELF_HARM at 1.0 and HIGH, and ends as
\* ESCALATE_TO_HUMAN with priority P0, whatever else the context holds and
\* whatever the model would do.
C11_SelfHarmEscalates ==
    (pc # "idle" /\ \E i \in 1..Len(context) : context[i] = "How To Kill Myself") =>
        /\ guard.fired
        /\ guard.category = "SELF_HARM"
        /\ pc \in { "moderated", "done" }
        /\ DictGet(mod.scores, "SELF_HARM") = 100
        /\ mod.risk_levels["SELF_HARM"] = "HIGH"
        /\ pc = "done" =>
              /\ result.categories["SELF_HARM"].score = 100
              /\ result.categories["SELF_HARM"].risk_level = "HIGH"
              /\ result.overall_decision = "ESCALATE_TO_HUMAN"
              /\ result.escalation_priority = "P0"

\* the self-harm phrase next to a slur, with the model loaded
C11_Witness ==
    /\ pc = "done"
    /\ engine = "loaded"
    /\ context = << "dyke", "How To Kill Myself" >>
    /\ result.escalation_priority = "P0"

\* the scenario of C12: no guardrail hit, the classifier scored SCAM_SPAM
\* 0.93 and nothing higher, the context holds two or more SCAM_SPAM keywords
\* and neither critical category is HIGH
ScamScenario ==
    /\ pc = "done"
    /\ ~guard.fired
    /\ nli.status = "returned"
    /\ DictHas(nli.scores, "SCAM_SPAM")
    /\ DictGet(nli.scores, "SCAM_SPAM") = 93
    /\ \A i \in 1..Len(nli.scores) : nli.scores[i].v <= 93
    /\ match_count("SCAM_SPAM", context) >= 2
    /\ ~LevelIs(mod.risk_levels, "SELF_HARM", "HIGH")
    /\ ~LevelIs(mod.risk_levels, "VIOLENCE_INCITEMENT", "HIGH")

ResultIsRemove ==
    /\ result.overall_decision = "REMOVE"
    /\ result.action_recommendation = "BLOCK_AND_REPORT"
    /\ result.escalation_priority = "P1"
    /\ result.categories["SCAM_SPAM"].risk_level = "HIGH"

\* rule 2 applies to the input of a direct call and rule 1 does not
RemoveCase == pc = "returned" /\ Rule2 /\ ~Rule1

\* C12 as stated: rule 2 without rule 1 gives REMOVE / BLOCK_AND_REPORT / P1,
\* and every item of the scenario ends as REMOVE with SCAM_SPAM HIGH.
C12_RemoveRule ==
    /\ RemoveCase => verdict = Triple("REMOVE", "BLOCK_AND_REPORT", "P1")
    /\ ScamScenario => ResultIsRemove

\* C12 amended: the items of the scenario end as REMOVE when SCAM_SPAM is
\* still the primary violation after the boost.
C12_RemoveRuleWhenPrimary ==
    /\ RemoveCase => verdict = Triple("REMOVE", "BLOCK_AND_REPORT", "P1")
    /\ (ScamScenario /\ mod.primary_violation = "SCAM_SPAM") => ResultIsRemove

\* an item of the scenario with a second category scored 0.90 by the
\* classifier, SCAM_SPAM primary
C12_Witness ==
    /\ ScamScenario
    /\ mod.primary_violation = "SCAM_SPAM"
    /\ DictGet(nli.scores, "HARASSMENT") = 90
    /\ result.overall_decision = "REMOVE"

\* the items of the batch that are objects passing validation and that the
\* pipeline handles without an exception
Succeeds(short) ==
    /\ short.object
    /\ short.required
    /\ short.duration >= 1 /\ short.duration <= 3600
    /\ ~short.empty_answer

\* the positions 1..n of the succeeding items, in input order
RECURSIVE SucceedingUpTo(_, _)
SucceedingUpTo(shorts, n) ==
    IF n = 0 THEN <<>>
    ELSE IF Succeeds(shorts[n]) THEN Append(SucceedingUpTo(shorts, n - 1), n)
    ELSE SucceedingUpTo(shorts, n - 1)

\* C13: failing items of a batch are skipped one by one and the batch is
\* never aborted; the results are the succeeding items in input order, and
\* every item after a failing one is still processed.
C13_BatchIsolation ==
    /\ batch.pc # "aborted"
    /\ batch.pc \in { "running", "finished" } =>
          batch.results = SucceedingUpTo(batch.shorts, batch.idx)
    /\ batch.pc = "finished" => batch.idx = Len(batch.shorts)

\* C14: without a guardrail hit, every category's score becomes
\* min(1.0, score + min(0.15, 0.05 x matchCount)); no score goes down, no
\* boost is above 0.15, and the boosted scores stay within [0, 1].
C14_KeywordBoost ==
    (Moderated /\ ~guard.fired) =>
        /\ Len(mod.scores) = Len(nli.scores)
        /\ \A i \in 1..Len(mod.scores) :
              LET cat == nli.scores[i].k
                  before == nli.scores[i].v
                  after == mod.scores[i].v
                  bonus == Min(15, 5 * match_count(cat, context))
              IN  /\ mod.scores[i].k = cat
                  /\ after = Min(100, before + bonus)
                  /\ after >= before
                  /\ after - before <= 15
                  /\ after >= 0 /\ after <= 100

\* four keywords of one category in the context: the boost is cut to 0.15
\* and the boosted score to 1.0, while another category gets 0.05
C14_Witness ==
    /\ Moderated
    /\ ~guard.fired
    /\ nli.status = "returned"
    /\ match_count("VIOLENCE_INCITEMENT", context) = 4
    /\ DictHas(nli.scores, "VIOLENCE_INCITEMENT")
    /\ DictGet(nli.scores, "VIOLENCE_INCITEMENT") = 93
    /\ DictGet(mod.scores, "VIOLENCE_INCITEMENT") = 100
    /\ DictHas(nli.scores, "HARASSMENT")
    /\ DictGet(mod.scores, "HARASSMENT") = DictGet(nli.scores, "HARASSMENT") + 5

\* C15: in a ModerationResult every non-primary category has no evidence;
\* the primary one has evidence only after a guardrail hit, and then the
\* one guardrail text; without a hit all evidence lists are empty.
C15_EvidenceOnlyFromGuardrail ==
    pc = "done" =>
        /\ \A cat \in DOMAIN result.categories :
              cat # result.primary_violation => result.categories[cat].evidence = <<>>
        /\ guard.fired =>
              /\ Len(result.categories[result.primary_violation].evidence) = 1
              /\ result.categories[result.primary_violation].evidence[1] = guard.evidence
        /\ ~guard.fired =>
              \A cat \in DOMAIN result.categories : result.categories[cat].evidence = <<>>

\* a result without a guardrail hit whose primary score was boosted
C15_Witness ==
    /\ pc = "done"
    /\ ~guard.fired
    /\ match_count(result.primary_violation, context) = 2
    /\ result.categories[result.primary_violation].evidence = <<>>

\* C16: after a guardrail hit the decision follows from the fired category
\* alone: SELF_HARM gives P0 escalation, HATE_SPEECH and SCAM_SPAM give
\* REMOVE / P1; never APPROVED, AGE_RESTRICT, P2 or P3.
C16_GuardrailDecision ==
    (pc = "done" /\ guard.fired) =>
        /\ guard.category \in { "SELF_HARM", "HATE_SPEECH", "SCAM_SPAM" }
        /\ guard.category = "SELF_HARM" =>
              /\ result.overall_decision = "ESCALATE_TO_HUMAN"
              /\ result.action_recommendation = "ESCALATE_FOR_HUMAN_REVIEW"
              /\ result.escalation_priority = "P0"
        /\ guard.category \in { "HATE_SPEECH", "SCAM_SPAM" } =>
              /\ result.overall_decision = "REMOVE"
              /\ result.action_recommendation = "BLOCK_AND_REPORT"
              /\ result.escalation_priority = "P1"
        /\ result.overall_decision \notin { "APPROVED", "AGE_RESTRICT" }
        /\ result.escalation_priority \notin { "P2", "P3" }

\* the scam-link guardrail fired and the item was removed
C16_Witness ==
    /\ pc = "done"
    /\ guard.fired
    /\ guard.category = "SCAM_SPAM"
    /\ result.overall_decision = "REMOVE"

\* the model is not loaded or the call raised, and no guardrail fired
Degraded == pc = "done" /\ ~guard.fired /\ nli.status \in { "unavailable", "raised" }

\* C17: in degraded mode a context without boost keywords gives seven
\* scores of 0.5 at LOW, primary HATE_SPEECH and APPROVED / P3; with
\* keywords the scores stay within [0.5, 0.65] and the decision is APPROVED,
\* ESCALATE_TO_HUMAN (P2 or P3) or AGE_RESTRICT, never REMOVE or P0.
C17_DegradedDecisions ==
    Degraded =>
        /\ (\A cat \in Categories : match_count(cat, context) = 0) =>
              /\ \A cat \in Categories :
                    /\ result.categories[cat].score = 50
                    /\ result.categories[cat].risk_level = "LOW"
              /\ result.primary_violation = "HATE_SPEECH"
              /\ result.overall_decision = "APPROVED"
              /\ result.action_recommendation = "APPROVE_CONTENT"
              /\ result.escalation_priority = "P3"
        /\ \A cat \in Categories :
              result.categories[cat].score >= 50 /\ result.categories[cat].score <= 65
        /\ result.overall_decision \in { "APPROVED", "ESCALATE_TO_HUMAN", "AGE_RESTRICT" }
        /\ result.escalation_priority \in { "P2", "P3" }
        /\ result.overall_decision \in { "APPROVED", "AGE_RESTRICT" } =>
              result.escalation_priority = "P3"

\* degraded mode with two categories boosted to 0.65: held for review at P2
C17_Witness ==
    /\ Degraded
    /\ result.categories["VIOLENCE_INCITEMENT"].score = 65
    /\ result.categories["SEXUAL_EXPLICIT"].score = 65
    /\ result.escalation_priority = "P2"

\* category X is in the result and every other category is there at LOW
AloneAbove(X) ==
    /\ DOMAIN result.categories = Categories
    /\ \A cat \in Categories \ { X } : result.categories[cat].risk_level = "LOW"

\* C18: without a guardrail hit, HARASSMENT, SEXUAL_EXPLICIT or
\* MISINFO_HIGH_HARM alone at HIGH over six LOW categories is APPROVED / P3,
\* while SEXUAL_EXPLICIT alone at 0.70 is AGE_RESTRICT.
C18_LoneHighApproved ==
    (pc = "done" /\ ~guard.fired) =>
        /\ \A X \in { "HARASSMENT", "SEXUAL_EXPLICIT", "MISINFO_HIGH_HARM" } :
              (AloneAbove(X) /\ result.categories[X].risk_level = "HIGH") =>
                  /\ result.overall_decision = "APPROVED"
                  /\ result.action_recommendation = "APPROVE_CONTENT"
                  /\ result.escalation_priority = "P3"
        /\ (AloneAbove("SEXUAL_EXPLICIT") /\ result.categories["SEXUAL_EXPLICIT"].score = 70) =>
              result.overall_decision = "AGE_RESTRICT"

\* SEXUAL_EXPLICIT alone at 0.90 is approved
C18_Witness ==
    /\ pc = "done"
    /\ ~guard.fired
    /\ AloneAbove("SEXUAL_EXPLICIT")
    /\ result.categories["SEXUAL_EXPLICIT"].score = 90
    /\ result.overall_decision = "APPROVED"

\* C19: compute_overall_decision returns one of six fixed triples, never
\* NEED_MORE_CONTEXT; P0 and P2 come with ESCALATE_TO_HUMAN only, P1 with
\* REMOVE only, and APPROVED and AGE_RESTRICT carry P3.
C19_SixTriples ==
    pc = "returned" =>
        /\ verdict \in
              { Triple("ESCALATE_TO_HUMAN", "ESCALATE_FOR_HUMAN_REVIEW", "P0"),
                Triple("REMOVE", "BLOCK_AND_REPORT", "P1"),
                Triple("ESCALATE_TO_HUMAN", "HOLD_FOR_REVIEW", "P2"),
                Triple("AGE_RESTRICT", "ADD_AGE_RESTRICTION", "P3"),
                Triple("ESCALATE_TO_HUMAN", "HOLD_FOR_HUMAN_REVIEW", "P3"),
                Triple("APPROVED", "APPROVE_CONTENT", "P3") }
        /\ verdict.decision # "NEED_MORE_CONTEXT"
        /\ verdict.priority \in { "P0", "P2" } => verdict.decision = "ESCALATE_TO_HUMAN"
        /\ verdict.priority = "P1" => verdict.decision = "REMOVE"
        /\ verdict.decision \in { "APPROVED", "AGE_RESTRICT" } => verdict.priority = "P3"

\* a call that ended in rule 5
C19_Witness ==
    /\ pc = "returned"
    /\ verdict = Triple("ESCALATE_TO_HUMAN", "HOLD_FOR_HUMAN_REVIEW", "P3")

\* C20: through the pipeline a REMOVE decision has HATE_SPEECH or SCAM_SPAM
\* as primary violation, never VIOLENCE_INCITEMENT, whose score above 0.90
\* is HIGH and escalates at P0.
C20_RemoveNeverViolence ==
    pc = "done" =>
        /\ result.overall_decision = "REMOVE" =>
              result.primary_violation \in { "HATE_SPEECH", "SCAM_SPAM" }
        /\ (result.primary_violation = "VIOLENCE_INCITEMENT" /\ result.confidence_score > 90) =>
              /\ result.categories["VIOLENCE_INCITEMENT"].risk_level = "HIGH"
              /\ result.escalation_priority = "P0"

\* VIOLENCE_INCITEMENT is primary above 0.90 and the item is escalated
C20_Witness ==
    /\ pc = "done"
    /\ ~guard.fired
    /\ result.primary_violation = "VIOLENCE_INCITEMENT"
    /\ result.confidence_score = 93
    /\ result.overall_decision = "ESCALATE_TO_HUMAN"

\* C21: over any sequence of get_engine calls the ModerationEngine is built
\* at most once and every call returns that one instance, which is the
\* global engine; its classifier never changes; and once loading has failed
\* every classify_with_nli call returns the 0.5 fallback for all categories.
C21_EngineBuiltOnce ==
    /\ [](/\ Len(instances) <= 1
          /\ \A i \in 1..Len(calls) : calls[i] = 1
          /\ (calls # <<>>) => (Len(instances) = 1 /\ engine = instances[1])
          /\ (engine = "None" /\ nli # NoNli) =>
                nli = [status |-> "unavailable", scores |-> ConstDict(FALLBACK)])
    /\ [][(instances # <<>>) =>
            (instances' # <<>> /\ instances'[1] = instances[1] /\ engine' = engine)]_vars

\* loading failed, get_engine has been called again, and classify_with_nli
\* has answered with the fallback
C21_Witness ==
    /\ pc = "engine"
    /\ Len(calls) >= 2
    /\ engine = "None"
    /\ nli.status = "unavailable"

=============================================================================
